---- MODULE Spec2Model ----
\* A model of src/src/timer_thread.c (mruby-timer-thread): the Timer::POSIX
\* handle over POSIX interval timers, the signal directory it resolves signal
\* specs with, and the stand-in built where interval timers are missing.
EXTENDS Integers, Sequences, FiniteSets, TLC

VARIABLES
  dataType,   \* DATA_TYPE(self) is &mrb_timer_posix_data_type
  dataPtr,    \* DATA_PTR(self): 0 (NULL) or the index of a record in recs
  recs,       \* heap: every mrb_timer_posix_data allocated so far
  slots,      \* heap: every timer_t storage block allocated so far
  params,     \* heap: every mrb_timer_posix_thread_param allocated so far
  ktimers,    \* kernel: every timer timer_create has made so far
  inflight,   \* contexts held by notification threads spawned and not yet run
  lastSignal, \* the signal sent last, as [to, signo]
  stopped,    \* the last successful timer_settime of the handle was stop's
  expiredAfterStop, \* an expiry was produced while stopped held
  crashed,    \* "no", or the invalid access made: "null" or "freed"
  held,       \* the caller holds a reference to the handle object
  builtWith,  \* the options of the last initialize that succeeded
  result,     \* outcome of the last method call on the handle
  sigArg,     \* signal directory: the index under test (an mrb_int)
  sigRes,     \* signal directory: outcomes computed for sigArg
  shimLog     \* stand-in build: the calls made so far with their outcomes

vars == <<dataType, dataPtr, recs, slots, params, ktimers, inflight, lastSignal,
          stopped, expiredAfterStop, crashed, held, builtWith, result,
          sigArg, sigRes, shimLog>>

handleVars == <<dataType, dataPtr, recs, slots, params, ktimers, inflight,
                lastSignal, stopped, expiredAfterStop, crashed, held, builtWith,
                result>>

-----------------------------------------------------------------------------
\* Platform values (Linux, glibc) of the names the source takes from
\* <signal.h>, <time.h> and <limits.h>.

SIGINT == 2
SIGUSR1 == 10
SIGUSR2 == 12
SIGALRM == 14
SIGTERM == 15
SIGRTMIN == 34
SIGRTMAX == 64
CLOCK_REALTIME == 0
CLOCK_MONOTONIC == 1
NULL == 0

\* Bounds of the model.
MaxConstructs == 2
MaxRTIndex == 33
MaxShimCalls == 3
MaxStartMs == 2100
MaxIntervalMs == 1001

-----------------------------------------------------------------------------
\* C integers.  An mrb_int is 64 bits wide and is held as four 16-bit limbs,
\* least significant first, in two's complement; an int is 32 bits wide and
\* is held as an integer in -2^31 .. 2^31-1.

Limb == 65536

\* C's / and %: the quotient truncates toward zero, the remainder takes the
\* sign of the dividend.
CDiv(a, b) == IF a >= 0 THEN a \div b ELSE -((-a) \div b)

CMod(a, b) == a - b * CDiv(a, b)

\* The mrb_int of a small integer n.
MrbInt(n) ==
  IF n >= 0 THEN <<n % Limb, (n \div Limb) % Limb, 0, 0>>
  ELSE LET m == -n - 1
       IN <<Limb - 1 - (m % Limb), Limb - 1 - ((m \div Limb) % Limb),
            Limb - 1, Limb - 1>>

MrbNegative(w) == w[4] >= Limb \div 2

\* -w, in 64 bits.
MrbNegate(w) ==
  LET c1 == IF w[1] = 0 THEN 1 ELSE 0
      c2 == IF c1 = 1 /\ w[2] = 0 THEN 1 ELSE 0
      c3 == IF c2 = 1 /\ w[3] = 0 THEN 1 ELSE 0
  IN <<(Limb - w[1]) % Limb, (Limb - 1 - w[2] + c1) % Limb,
       (Limb - 1 - w[3] + c2) % Limb, (Limb - 1 - w[4] + c3) % Limb>>

\* (int)hi:lo, the low 32 bits as a signed int.
Int32(hi, lo) == IF hi >= Limb \div 2 THEN (hi - Limb) * Limb + lo ELSE hi * Limb + lo

\* (int)idx of an mrb_int.
IntOfMrbInt(w) == Int32(w[2], w[1])

\* w divided by 10, for an mrb_int w >= 0: <<quotient, remainder>>.
MrbDivTen(w) ==
  LET a4 == w[4]
      a3 == (a4 % 10) * Limb + w[3]
      a2 == (a3 % 10) * Limb + w[2]
      a1 == (a2 % 10) * Limb + w[1]
  IN <<(<<a1 \div 10, a2 \div 10, a3 \div 10, a4 \div 10>>), a1 % 10>>

DigitChars == <<"0", "1", "2", "3", "4", "5", "6", "7", "8", "9">>

RECURSIVE MrbDigits(_)
\* The decimal digits of an mrb_int w >= 0, most significant first.
MrbDigits(w) ==
  LET qr == MrbDivTen(w)
  IN IF qr[1] = <<0, 0, 0, 0>> THEN <<DigitChars[qr[2] + 1]>>
     ELSE Append(MrbDigits(qr[1]), DigitChars[qr[2] + 1])

\* Integer#to_s of the host: the decimal numeral of an mrb_int.
IntToS(w) == IF MrbNegative(w) THEN <<"-">> \o MrbDigits(MrbNegate(w)) ELSE MrbDigits(w)

-----------------------------------------------------------------------------
\* strtol(s, NULL, 0) followed by the (int) cast of signm2signo.  Strings are
\* sequences of one-character strings.  The long is accumulated in its low 32
\* bits only, which is all the cast keeps; strtol's clamp to LONG_MAX needs a
\* numeral of 19 digits or more, longer than any the model draws.

DigitVal(c) ==
  CASE c = "0" -> 0 [] c = "1" -> 1 [] c = "2" -> 2 [] c = "3" -> 3
    [] c = "4" -> 4 [] c = "5" -> 5 [] c = "6" -> 6 [] c = "7" -> 7
    [] c = "8" -> 8 [] c = "9" -> 9
    [] c \in {"a", "A"} -> 10 [] c \in {"b", "B"} -> 11
    [] c \in {"c", "C"} -> 12 [] c \in {"d", "D"} -> 13
    [] c \in {"e", "E"} -> 14 [] c \in {"f", "F"} -> 15
    [] OTHER -> 99

RECURSIVE StrtolAcc(_, _, _, _, _)
\* The digits of s from position k on, in the given base, added to hi:lo.
StrtolAcc(s, k, base, hi, lo) ==
  IF k > Len(s) \/ DigitVal(s[k]) >= base THEN <<hi, lo>>
  ELSE LET l == lo * base + DigitVal(s[k])
           h == hi * base + (l \div Limb)
       IN StrtolAcc(s, k + 1, base, h % Limb, l % Limb)

RECURSIVE SkipSpace(_, _)
SkipSpace(s, k) == IF k <= Len(s) /\ s[k] = " " THEN SkipSpace(s, k + 1) ELSE k

\* The long as the cast leaves it: negated, if a minus sign was read.
StrtolCast(neg, acc) ==
  IntOfMrbInt(IF neg THEN MrbNegate(<<acc[2], acc[1], 0, 0>>)
              ELSE <<acc[2], acc[1], 0, 0>>)

\* A "0x" or "0X" followed by a hexadecimal digit starts at position k.
HexPrefix(s, k) ==
  /\ k + 2 <= Len(s)
  /\ s[k] = "0"
  /\ s[k + 1] \in {"x", "X"}
  /\ DigitVal(s[k + 2]) < 16

\* Base 0: the prefix picks base 16, 8 or 10; the digits start after it.
StrtolDigits(s, neg, k) ==
  IF HexPrefix(s, k) THEN StrtolCast(neg, StrtolAcc(s, k + 2, 16, 0, 0))
  ELSE IF k <= Len(s) /\ s[k] = "0" THEN StrtolCast(neg, StrtolAcc(s, k, 8, 0, 0))
  ELSE StrtolCast(neg, StrtolAcc(s, k, 10, 0, 0))

\* The optional sign at position k.
StrtolSign(s, k) ==
  IF k <= Len(s) /\ s[k] \in {"-", "+"} THEN StrtolDigits(s, s[k] = "-", k + 1)
  ELSE StrtolDigits(s, FALSE, k)

\* (int)strtol(s, NULL, 0).
StrtolInt(s) == StrtolSign(s, SkipSpace(s, 1))

-----------------------------------------------------------------------------
\* The signal directory.

\* The table of names; the entries of the source's table that the model's
\* inputs can name, in the source's order.
siglist ==
  << [signm |-> <<"E", "X", "I", "T">>, signo |-> 0],
     [signm |-> <<"I", "N", "T">>, signo |-> SIGINT],
     [signm |-> <<"A", "L", "R", "M">>, signo |-> SIGALRM],
     [signm |-> <<"T", "E", "R", "M">>, signo |-> SIGTERM],
     [signm |-> <<"U", "S", "R", "1">>, signo |-> SIGUSR1],
     [signm |-> <<"U", "S", "R", "2">>, signo |-> SIGUSR2] >>

StartsWith(s, p) == Len(s) >= Len(p) /\ SubSeq(s, 1, Len(p)) = p

Tail2(s) == SubSeq(s, 3, Len(s))

\* Lines 180-184: the signal of the offset ret read after "RT".
RTOffset(ret) == IF ret = 0 \/ SIGRTMIN + ret > SIGRTMAX THEN 0 ELSE SIGRTMIN + ret

\* The first entry of siglist named nm, or 0.
SiglistFind(nm) ==
  IF \E k \in 1..Len(siglist) : siglist[k].signm = nm
  THEN CHOOSE k \in 1..Len(siglist) :
         /\ siglist[k].signm = nm
         /\ \A j \in 1..(k - 1) : siglist[j].signm # nm
  ELSE 0

signm2signo(nm) ==
  IF SiglistFind(nm) # 0 THEN siglist[SiglistFind(nm)].signo
  ELSE IF nm = <<"R", "T", "0">> THEN SIGRTMIN
  ELSE IF StartsWith(nm, <<"R", "T">>) THEN RTOffset(StrtolInt(Tail2(nm)))
  ELSE 0

\* Values a caller can give as a signal spec, as [t, n, s]: an integer n or a
\* string (or symbol) s.  Outcomes are [ok, v, err].
Ok(v) == [ok |-> TRUE, v |-> v, err |-> "none", nil |-> FALSE]

Raise(e) == [ok |-> FALSE, v |-> 0, err |-> e, nil |-> FALSE]

\* A nil return value.
Nil == [ok |-> TRUE, v |-> 0, err |-> "none", nil |-> TRUE]

\* Lines 215-218: the name s, its "SIG" taken off, resolved to sig.
ToSignoNamed(s, sig) ==
  IF sig = 0 /\ s # <<"E", "X", "I", "T">> THEN Raise("ArgumentError") ELSE Ok(sig)

\* Lines 211-215.
ToSignoStr(s) ==
  IF StartsWith(s, <<"S", "I", "G">>)
  THEN ToSignoNamed(SubSeq(s, 4, Len(s)), signm2signo(SubSeq(s, 4, Len(s))))
  ELSE ToSignoNamed(s, signm2signo(s))

mrb_to_signo(vsig) ==
  IF vsig.t = "fixnum"
  THEN IF vsig.n < 0 \/ vsig.n >= SIGRTMAX THEN Raise("ArgumentError") ELSE Ok(vsig.n)
  ELSE ToSignoStr(vsig.s)

\* RTSignal.get(idx).
mrb_rtsignal_get(idx) ==
  IF SIGRTMIN + IntOfMrbInt(idx) > SIGRTMAX THEN Raise("ArgumentError")
  ELSE Ok(SIGRTMIN + IntOfMrbInt(idx))

-----------------------------------------------------------------------------
\* The kernel's interval timers.  A timer is [live, clockid, notify, signo,
\* sival, ts, deletes]; ts is the itimerspec [vs, vn, is, in] (it_value and
\* it_interval, seconds and nanoseconds).

NSecPerMSec == 1000000

NSecPerSec == 1000000000

ZeroSpec == [vs |-> 0, vn |-> 0, is |-> 0, in |-> 0]

\* Clock ids the kernel knows (CLOCK_REALTIME .. CLOCK_BOOTTIME_ALARM, 10 is
\* unused).
ValidClock(c) == c \in (0..11) \ {10}

\* timer_create(clockid, sevp, &id): sevp is <<>> (NULL) or <<sev>>, sev a sigevent
\* [notify, signo, sival].  A NULL sevp is SIGEV_SIGNAL with SIGALRM.
\* Returns <<rc, ktimers'>>; the new id is Len(ktimers').
timer_create(kt, clockid, sevp) ==
  IF ~ValidClock(clockid) THEN <<-1, kt>>
  ELSE LET ev == IF sevp = <<>>
                 THEN [notify |-> "SIGEV_SIGNAL", signo |-> SIGALRM, sival |-> NULL]
                 ELSE sevp[1]
       IN IF ev.notify = "SIGEV_SIGNAL" /\ (ev.signo <= 0 \/ ev.signo > SIGRTMAX)
          THEN <<-1, kt>>
          ELSE <<0, Append(kt, [live |-> TRUE, clockid |-> clockid,
                                notify |-> ev.notify, signo |-> ev.signo,
                                sival |-> ev.sival, ts |-> ZeroSpec,
                                deletes |-> 0])>>

\* timer_delete(id).
timer_delete(kt, id) ==
  IF id \in 1..Len(kt)
  THEN [kt EXCEPT ![id] = [live |-> FALSE, clockid |-> 0, notify |-> "deleted",
                           signo |-> 0, sival |-> NULL, ts |-> ZeroSpec,
                           deletes |-> kt[id].deletes + 1]]
  ELSE kt

ValidTimespec(sec, nsec) == sec >= 0 /\ nsec >= 0 /\ nsec < NSecPerSec

\* timer_settime(id, 0, &ts, NULL): <<rc, ktimers'>>.  A zero it_value
\* disarms the timer and clears its interval.
timer_settime(kt, id, ts) ==
  IF ~(id \in 1..Len(kt) /\ kt[id].live) THEN <<-1, kt>>
  ELSE IF ~ValidTimespec(ts.vs, ts.vn) \/ ~ValidTimespec(ts.is, ts.in) THEN <<-1, kt>>
  ELSE IF ts.vs = 0 /\ ts.vn = 0 THEN <<0, [kt EXCEPT ![id].ts = ZeroSpec]>>
  ELSE <<0, [kt EXCEPT ![id].ts = ts]>>

\* timer_gettime(id, &ts): <<rc, ts>>.
timer_gettime(kt, id) ==
  IF id \in 1..Len(kt) /\ kt[id].live THEN <<0, kt[id].ts>> ELSE <<-1, ZeroSpec>>

-----------------------------------------------------------------------------
\* The handle.  heap is [recs, slots, params, ktimers].

\* mrb_timer_posix_free(mrb, p), p # NULL.
mrb_timer_posix_free(h, p) ==
  LET data == h.recs[p]
      kt1 == timer_delete(h.ktimers, h.slots[data.timer_ptr].timer)
      sl1 == [h.slots EXCEPT ![data.timer_ptr] = [live |-> FALSE, timer |-> 0]]
      q == data.thread_param_ptr
      pa1 == IF q # NULL
             THEN [h.params EXCEPT
                     ![q] = [live |-> FALSE, thread_id |-> 0, signo |-> 0,
                             none |-> h.params[q].none,
                             frees |-> h.params[q].frees + 1,
                             early |-> \E t \in 1..Len(kt1) :
                                          kt1[t].live /\ kt1[t].sival = q]]
             ELSE h.params
      re1 == [h.recs EXCEPT ![p] = [live |-> FALSE, timer_ptr |-> NULL,
                                    timer_signo |-> 0, clockid |-> 0,
                                    thread_param_ptr |-> NULL]]
  IN [recs |-> re1, slots |-> sl1, params |-> pa1, ktimers |-> kt1]

\* The option hash of initialize: [signal, clock_id, thread_id].  signal is
\* [t, n, s] with t "absent" (no such key), "nil", "fixnum" or "string".
AbsentSig == [t |-> "absent", n |-> 0, s |-> <<>>]

NilSig == [t |-> "nil", n |-> 0, s |-> <<>>]

FixSig(n) == [t |-> "fixnum", n |-> n, s |-> <<>>]

StrSig(s) == [t |-> "string", n |-> 0, s |-> s]

\* The sigevent as lines 284-286 leave it: sigev_notify is 0, SIGEV_SIGNAL.
Sev0 == [notify |-> "SIGEV_SIGNAL", signo |-> -1, sival |-> NULL]

\* Lines 302-307 of initialize without the test sno <= 0.
InitSignoWithoutTest(r) ==
  IF ~r.ok THEN r
  ELSE Ok([Sev0 EXCEPT !.notify = "SIGEV_SIGNAL", !.signo = r.v])

\* Lines 302-307 of initialize, r the outcome of mrb_to_signo.
InitSigno(r) ==
  IF ~r.ok THEN r
  ELSE IF r.v <= 0 THEN Raise("ArgumentError")
  ELSE Ok([Sev0 EXCEPT !.notify = "SIGEV_SIGNAL", !.signo = r.v])

\* Lines 293-309 of initialize: the sigevent after the signal key is read,
\* or the error raised.
InitSignal(signal) ==
  IF signal.t = "absent" THEN Ok(Sev0)
  ELSE IF signal.t = "nil" THEN Ok([Sev0 EXCEPT !.notify = "SIGEV_NONE", !.signo = 0])
  ELSE InitSigno(mrb_to_signo(signal))

\* Lines 317-333 of initialize with the context's signo always SIGALRM.
InitThreadDefaultSignal(sev, pa, thread_id) ==
  IF thread_id = <<>> THEN [sev |-> sev, params |-> pa, param |-> NULL]
  ELSE [sev |-> [sev EXCEPT !.notify = "SIGEV_THREAD", !.sival = Len(pa) + 1],
        params |-> Append(pa, [live |-> TRUE, thread_id |-> thread_id[1],
                               signo |-> SIGALRM,
                               none |-> sev.notify = "SIGEV_NONE",
                               frees |-> 0, early |-> FALSE]),
        param |-> Len(pa) + 1]

\* Lines 317-333 of initialize: [sev, params, param].  The context's field
\* none remembers that it was allocated for signal: nil.
InitThread(sev, pa, thread_id) ==
  IF thread_id = <<>> THEN [sev |-> sev, params |-> pa, param |-> NULL]
  ELSE [sev |-> [sev EXCEPT !.notify = "SIGEV_THREAD", !.sival = Len(pa) + 1],
        params |-> Append(pa, [live |-> TRUE, thread_id |-> thread_id[1],
                               signo |-> IF sev.signo = -1 THEN SIGALRM ELSE sev.signo,
                               none |-> sev.notify = "SIGEV_NONE",
                               frees |-> 0, early |-> FALSE]),
        param |-> Len(pa) + 1]

\* Lines 347-368 of initialize: tc is what timer_create returned, h the heap
\* with data and timer_ptr allocated.  [heap, dataPtr, dataType, res].
InitFinish(h, clockid, sev, param, tc) ==
  IF tc[1] = -1
  THEN [heap |-> h, dataPtr |-> NULL, dataType |-> TRUE, res |-> Raise("SystemCallError")]
  ELSE [heap |-> [h EXCEPT
                    !.recs[Len(h.recs)] =
                       [live |-> TRUE, timer_ptr |-> Len(h.slots),
                        timer_signo |-> IF sev.signo < 0 THEN SIGALRM ELSE sev.signo,
                        clockid |-> clockid, thread_param_ptr |-> param],
                    !.slots[Len(h.slots)] = [live |-> TRUE, timer |-> Len(tc[2])],
                    !.ktimers = tc[2]],
        dataPtr |-> Len(h.recs), dataType |-> TRUE, res |-> Ok(0)]

\* What mrb_malloc returns for data and timer_ptr: their fields are not set.
BlankData ==
  [live |-> TRUE, timer_ptr |-> NULL, timer_signo |-> 0, clockid |-> 0,
   thread_param_ptr |-> NULL]

BlankSlot == [live |-> TRUE, timer |-> 0]

\* Lines 341-359 of initialize, on the heap h left by the release of the old
\* data.
InitCreate(h, clockid, sev, param) ==
  InitFinish([h EXCEPT !.recs = Append(h.recs, BlankData),
                       !.slots = Append(h.slots, BlankSlot)],
             clockid, sev, param,
             timer_create(h.ktimers, clockid, IF sev.signo < 0 THEN <<>> ELSE <<sev>>))

\* Lines 336-339 of initialize: the old data, if any, is released.
InitRelease(h, dp, clockid, sev, param) ==
  IF dp # NULL THEN InitCreate(mrb_timer_posix_free(h, dp), clockid, sev, param)
  ELSE InitCreate(h, clockid, sev, param)

\* Lines 311-339 of initialize, s1 the outcome of reading the signal key.
InitOptions(h, dp, dt, opts, s1, th) ==
  IF ~s1.ok THEN [heap |-> h, dataPtr |-> dp, dataType |-> dt, res |-> s1]
  ELSE InitRelease([h EXCEPT !.params = th.params], dp,
                   IF opts.clock_id = <<>> THEN CLOCK_REALTIME ELSE opts.clock_id[1],
                   th.sev, th.param)

\* The sigevent to go on with when reading the signal key raised nothing.
SevOf(s1) == IF s1.ok THEN s1.v ELSE Sev0

\* mrb_timer_posix_init on the heap h with DATA_PTR(self) = dp:
\* [heap, dataPtr, dataType, res].
mrb_timer_posix_init(h, dp, dt, opts) ==
  InitOptions(h, dp, dt, opts, InitSignal(opts.signal),
              InitThread(SevOf(InitSignal(opts.signal)), h.params, opts.thread_id))

\* mrb_set_itimerspec keeping the seconds only.
SetItimerspecSecondsOnly(start, start_nsec, interval, interval_nsec) ==
  IF start < 0 \/ interval < 0 THEN <<-1, ZeroSpec>>
  ELSE <<0, [vs |-> start, vn |-> 0, is |-> interval, in |-> 0]>>

\* mrb_set_itimerspec: <<rc, ts>>.
mrb_set_itimerspec(start, start_nsec, interval, interval_nsec) ==
  IF start < 0 \/ interval < 0 THEN <<-1, ZeroSpec>>
  ELSE <<0, [vs |-> start, vn |-> start_nsec, is |-> interval, in |-> interval_nsec]>>

\* A start that also puts the kernel timer on CLOCK_REALTIME.
StartResettingClock(kt, id, start, interval_arg) ==
  [ktimers |-> [kt EXCEPT ![id].clockid = CLOCK_REALTIME], res |-> Ok(0),
   settime |-> TRUE, ts |-> ZeroSpec]

\* mrb_timer_posix_start(start, interval) on a handle whose kernel timer is
\* id; an absent second argument leaves interval at -1.
\* [ktimers, res, settime, ts]; settime tells that timer_settime was called,
\* ts is the itimerspec built for it.
mrb_timer_posix_start(kt, id, start, interval_arg) ==
  LET interval == IF interval_arg = <<>> THEN -1 ELSE interval_arg[1]
      s_sec == CDiv(start, 1000)
      s_nsec == CMod(start, 1000) * NSecPerMSec
      i_sec == IF interval >= 0 THEN CDiv(interval, 1000) ELSE 0
      i_nsec == IF interval >= 0 THEN CMod(interval, 1000) * NSecPerMSec ELSE 0
      sp == mrb_set_itimerspec(s_sec, s_nsec, i_sec, i_nsec)
      st == timer_settime(kt, id, sp[2])
  IN IF sp[1] = -1
     THEN [ktimers |-> kt, res |-> Raise("ArgumentError"), settime |-> FALSE,
           ts |-> ZeroSpec]
     ELSE IF st[1] = -1
     THEN [ktimers |-> kt, res |-> Raise("SystemCallError"), settime |-> TRUE,
           ts |-> sp[2]]
     ELSE [ktimers |-> st[2], res |-> Ok(0), settime |-> TRUE, ts |-> sp[2]]

\* mrb_timer_posix_stop without its timer_settime call.
StopWithoutSettime(kt, id) == [ktimers |-> kt, res |-> Ok(0), settime |-> FALSE]

\* mrb_timer_posix_stop.
mrb_timer_posix_stop(kt, id) ==
  LET sp == mrb_set_itimerspec(0, 0, 0, 0)
      st == timer_settime(kt, id, sp[2])
  IN IF sp[1] = -1
     THEN [ktimers |-> kt, res |-> Raise("ArgumentError"), settime |-> FALSE]
     ELSE IF st[1] = -1
     THEN [ktimers |-> kt, res |-> Raise("SystemCallError"), settime |-> TRUE]
     ELSE [ktimers |-> st[2], res |-> Ok(0), settime |-> TRUE]

\* mrb_timer_posix_status_raw: the four numbers of the hash.
mrb_timer_posix_status_raw(kt, id) ==
  LET g == timer_gettime(kt, id)
  IN IF g[1] = -1 THEN Raise("SystemCallError") ELSE Ok(g[2])

\* mrb_timer_posix_is_running testing tv_sec only.
IsRunningSecondsOnly(kt, id) ==
  LET g == timer_gettime(kt, id)
  IN IF g[1] = -1 THEN Raise("SystemCallError") ELSE Ok(g[2].vs # 0)

\* mrb_timer_posix_is_running.
mrb_timer_posix_is_running(kt, id) ==
  LET g == timer_gettime(kt, id)
  IN IF g[1] = -1 THEN Raise("SystemCallError")
     ELSE Ok(g[2].vs # 0 \/ g[2].vn # 0)

\* mrb_timer_posix_signo without its test signo > 0.
SignoWithoutTest(data) == Ok(data.timer_signo)

\* mrb_timer_posix_signo.
mrb_timer_posix_signo(data) ==
  IF data.timer_signo > 0 THEN Ok(data.timer_signo) ELSE Nil

\* mrb_timer_posix_clockid.
mrb_timer_posix_clockid(data) == Ok(data.clockid)

-----------------------------------------------------------------------------
\* The calls a host program makes on one handle object, and the kernel's
\* steps.  Each call is one action.

\* The process as the target of a signal; threads are 1, 2, ...
PROCESS == 0

\* No signal sent yet.
NoSignal == [to |-> PROCESS, signo |-> 0, timer |-> 0]

Str_SIGUSR1 == <<"S", "I", "G", "U", "S", "R", "1">>

Str_EXIT == <<"E", "X", "I", "T">>

Str_SIGEXIT == <<"S", "I", "G", "E", "X", "I", "T">>

Str_BOGUS == <<"B", "O", "G", "U", "S">>

SignalSpecs ==
  {AbsentSig, NilSig, FixSig(0), StrSig(Str_SIGUSR1), StrSig(Str_SIGEXIT),
   StrSig(Str_BOGUS)}

\* An optional argument is <<>> when absent and <<v>> when given.
ClockArgs == {<<>>, <<CLOCK_MONOTONIC>>, <<99>>}

ThreadArgs == {<<>>, <<1>>}

Options == [signal : SignalSpecs, clock_id : ClockArgs, thread_id : ThreadArgs]

\* The calls of start made on the handle, as <<start, interval>>.
StartArgs ==
  {<<-1000, <<>>>>, <<-1, <<>>>>, <<0, <<>>>>, <<0, <<0>>>>, <<0, <<-1>>>>,
   <<2, <<>>>>, <<2, <<2>>>>, <<2, <<-1>>>>}

\* Times to the next expiry, in milliseconds, that Elapse can leave.
RemainVals == {1}

Heap == [recs |-> recs, slots |-> slots, params |-> params, ktimers |-> ktimers]

\* The kernel timer of the handle: *(data->timer_ptr).
TimerOf(dp) == slots[recs[dp].timer_ptr].timer

NoValue == [v |-> 0, ts |-> ZeroSpec, running |-> FALSE]

\* What a call left behind: the method, how it ended, and what it returned.
Outcome(op, args, r, val, settime) ==
  [op |-> op, args |-> args, ok |-> r.ok, err |-> r.err, nil |-> r.nil, v |-> val.v, ts |-> val.ts,
   running |-> val.running, settime |-> settime]

\* A call that dereferences DATA_PTR(self) while it is NULL.
NullDeref ==
  /\ dataPtr = NULL
  /\ crashed' = "null"
  /\ UNCHANGED <<dataType, dataPtr, recs, slots, params, ktimers, inflight,
                 lastSignal, stopped, expiredAfterStop, held, builtWith, result>>

\* The local sno of initialize (line 302): <<n>> when the signal key held a
\* spec that mrb_to_signo resolved to n, else <<>>.
SnoOf(signal) ==
  IF signal.t \in {"fixnum", "string"} /\ mrb_to_signo(signal).ok
  THEN <<mrb_to_signo(signal).v>>
  ELSE <<>>

\* The state a call of initialize leaves, r what mrb_timer_posix_init made.
InitializeTo(opts, r) ==
  /\ recs' = r.heap.recs
  /\ slots' = r.heap.slots
  /\ params' = r.heap.params
  /\ ktimers' = r.heap.ktimers
  /\ dataPtr' = r.dataPtr
  /\ dataType' = r.dataType
  /\ held' = (held \/ r.res.ok)
  /\ stopped' = (stopped /\ r.heap.ktimers = ktimers)
  /\ builtWith' = IF r.res.ok THEN opts ELSE builtWith
  /\ result' = Outcome("initialize", SnoOf(opts.signal), r.res, NoValue, FALSE)

\* Timer::POSIX.new(opts) on a fresh object, or initialize(opts) again on
\* the object the caller holds.
Initialize(opts) ==
  /\ crashed = "no"
  /\ UNCHANGED <<sigArg, sigRes, shimLog>>
  /\ held \/ ~dataType
  /\ Len(recs) < MaxConstructs
  /\ InitializeTo(opts, mrb_timer_posix_init(Heap, dataPtr, dataType, opts))
  /\ UNCHANGED <<inflight, lastSignal, expiredAfterStop, crashed>>

\* The object is dropped and collected: the collector calls the dfree of its
\* data type, if one is set, on DATA_PTR.  A fresh object takes its place.
Destroy ==
  /\ crashed = "no"
  /\ UNCHANGED <<sigArg, sigRes, shimLog>>
  /\ dataType
  /\ IF dataPtr = NULL
     THEN /\ crashed' = "null"
          /\ UNCHANGED <<dataType, dataPtr, recs, slots, params, ktimers, held,
                         stopped, result>>
     ELSE LET h == mrb_timer_posix_free(Heap, dataPtr)
          IN /\ recs' = h.recs
             /\ slots' = h.slots
             /\ params' = h.params
             /\ ktimers' = h.ktimers
             /\ dataPtr' = NULL
             /\ dataType' = FALSE
             /\ held' = FALSE
             /\ stopped' = FALSE
             /\ result' = Outcome("destroy", <<>>, Ok(0), NoValue, FALSE)
             /\ crashed' = crashed
  /\ UNCHANGED <<inflight, lastSignal, expiredAfterStop, builtWith>>

Start(start, interval) ==
  /\ crashed = "no" /\ held
  /\ UNCHANGED <<sigArg, sigRes, shimLog>>
  /\ \/ NullDeref
     \/ /\ dataPtr # NULL
        /\ LET r == mrb_timer_posix_start(ktimers, TimerOf(dataPtr), start, interval)
           IN /\ ktimers' = r.ktimers
              /\ stopped' = (stopped /\ ~r.res.ok)
              /\ result' = Outcome("start", <<start>> \o interval, r.res,
                                    [NoValue EXCEPT !.ts = r.ts], r.settime)
        /\ UNCHANGED <<dataType, dataPtr, recs, slots, params, inflight, lastSignal,
                       expiredAfterStop, crashed, held, builtWith>>

Stop ==
  /\ crashed = "no" /\ held
  /\ UNCHANGED <<sigArg, sigRes, shimLog>>
  /\ \/ NullDeref
     \/ /\ dataPtr # NULL
        /\ LET r == mrb_timer_posix_stop(ktimers, TimerOf(dataPtr))
           IN /\ ktimers' = r.ktimers
              /\ stopped' = (stopped \/ r.res.ok)
              /\ result' = Outcome("stop", <<>>, r.res, NoValue, r.settime)
        /\ UNCHANGED <<dataType, dataPtr, recs, slots, params, inflight, lastSignal,
                       expiredAfterStop, crashed, held, builtWith>>

StatusRaw ==
  /\ crashed = "no" /\ held
  /\ UNCHANGED <<sigArg, sigRes, shimLog>>
  /\ \/ NullDeref
     \/ /\ dataPtr # NULL
        /\ LET r == mrb_timer_posix_status_raw(ktimers, TimerOf(dataPtr))
           IN result' = Outcome("__status_raw", <<>>, r,
                                [NoValue EXCEPT !.ts = IF r.ok THEN r.v ELSE ZeroSpec],
                                FALSE)
        /\ UNCHANGED <<dataType, dataPtr, recs, slots, params, ktimers, inflight,
                       lastSignal, stopped, expiredAfterStop, crashed, held, builtWith>>

IsRunning ==
  /\ crashed = "no" /\ held
  /\ UNCHANGED <<sigArg, sigRes, shimLog>>
  /\ \/ NullDeref
     \/ /\ dataPtr # NULL
        /\ LET r == mrb_timer_posix_is_running(ktimers, TimerOf(dataPtr))
           IN result' = Outcome("running?", <<>>, r,
                                [NoValue EXCEPT !.running = r.ok /\ r.v], FALSE)
        /\ UNCHANGED <<dataType, dataPtr, recs, slots, params, ktimers, inflight,
                       lastSignal, stopped, expiredAfterStop, crashed, held, builtWith>>

Signo ==
  /\ crashed = "no" /\ held
  /\ UNCHANGED <<sigArg, sigRes, shimLog>>
  /\ \/ NullDeref
     \/ /\ dataPtr # NULL
        /\ LET r == mrb_timer_posix_signo(recs[dataPtr])
           IN result' = Outcome("signo", <<>>, r, [NoValue EXCEPT !.v = r.v], FALSE)
        /\ UNCHANGED <<dataType, dataPtr, recs, slots, params, ktimers, inflight,
                       lastSignal, stopped, expiredAfterStop, crashed, held, builtWith>>

ClockId ==
  /\ crashed = "no" /\ held
  /\ UNCHANGED <<sigArg, sigRes, shimLog>>
  /\ \/ NullDeref
     \/ /\ dataPtr # NULL
        /\ LET r == mrb_timer_posix_clockid(recs[dataPtr])
           IN result' = Outcome("clock_id", <<>>, r, [NoValue EXCEPT !.v = r.v], FALSE)
        /\ UNCHANGED <<dataType, dataPtr, recs, slots, params, ktimers, inflight,
                       lastSignal, stopped, expiredAfterStop, crashed, held, builtWith>>

\* Time to the next expiry of a kernel timer, in milliseconds.
RemainingMs(t) == ktimers[t].ts.vs * 1000 + ktimers[t].ts.vn \div NSecPerMSec

\* Time passes on an armed timer without reaching its expiry.
Elapse(t, left) ==
  /\ crashed = "no"
  /\ UNCHANGED <<sigArg, sigRes, shimLog>>
  /\ ktimers[t].live
  /\ left < RemainingMs(t)
  /\ ktimers' = [ktimers EXCEPT ![t].ts.vs = left \div 1000,
                                ![t].ts.vn = (left % 1000) * NSecPerMSec]
  /\ UNCHANGED <<dataType, dataPtr, recs, slots, params, inflight, lastSignal,
                 stopped, expiredAfterStop, crashed, held, builtWith, result>>

\* An armed timer expires: it reloads from its interval, or disarms, and the
\* kernel notifies as the timer's sigevent says.  For SIGEV_THREAD a
\* notification thread is spawned with sigev_value.
Expire(t) ==
  /\ crashed = "no"
  /\ UNCHANGED <<sigArg, sigRes, shimLog>>
  /\ ktimers[t].live
  /\ RemainingMs(t) > 0
  /\ ktimers' = [ktimers EXCEPT ![t].ts.vs = ktimers[t].ts.is,
                                ![t].ts.vn = ktimers[t].ts.in]
  /\ lastSignal' = IF ktimers[t].notify = "SIGEV_SIGNAL"
                   THEN [to |-> PROCESS, signo |-> ktimers[t].signo, timer |-> t]
                   ELSE lastSignal
  /\ inflight' = IF ktimers[t].notify = "SIGEV_THREAD"
                 THEN inflight \cup {ktimers[t].sival}
                 ELSE inflight
  /\ expiredAfterStop' = (expiredAfterStop
                            \/ (stopped /\ dataPtr # NULL /\ TimerOf(dataPtr) = t))
  /\ UNCHANGED <<dataType, dataPtr, recs, slots, params, stopped, crashed, held,
                 builtWith, result>>

\* What pthread_kill can be handed when param points at a freed block: the
\* block holds whatever the allocator or a later owner wrote, so no signal is
\* sent, or some signal goes to some thread (here the signal and thread of
\* another handle, or SIGALRM to a thread no handle named).
StaleSends ==
  {lastSignal, [to |-> 1, signo |-> SIGUSR1, timer |-> 0],
   [to |-> 2, signo |-> SIGALRM, timer |-> 0]}

\* mrb_timer_posix_thread_func(sv) runs on its notification thread.
\* pthread_kill with signal 0 sends nothing.
mrb_timer_posix_thread_func(p) ==
  /\ crashed = "no"
  /\ UNCHANGED <<sigArg, sigRes, shimLog>>
  /\ p \in inflight
  /\ inflight' = inflight \ {p}
  /\ IF params[p].live
     THEN /\ lastSignal' = IF params[p].signo = 0 THEN lastSignal
                           ELSE [to |-> params[p].thread_id, signo |-> params[p].signo,
                                 timer |-> 0]
          /\ crashed' = crashed
     ELSE /\ crashed' = "freed"
          /\ lastSignal' \in StaleSends
  /\ UNCHANGED <<dataType, dataPtr, recs, slots, params, ktimers, stopped,
                 expiredAfterStop, held, builtWith, result>>

NoResult == Outcome("none", <<>>, Ok(0), NoValue, FALSE)

NoOptions == [signal |-> AbsentSig, clock_id |-> <<>>, thread_id |-> <<>>]

Init ==
  /\ dataType = FALSE
  /\ dataPtr = NULL
  /\ recs = <<>>
  /\ slots = <<>>
  /\ params = <<>>
  /\ ktimers = <<>>
  /\ inflight = {}
  /\ lastSignal = NoSignal
  /\ stopped = FALSE
  /\ expiredAfterStop = FALSE
  /\ crashed = "no"
  /\ held = FALSE
  /\ builtWith = NoOptions
  /\ result = NoResult
  /\ sigArg = MrbInt(0)
  /\ sigRes = <<>>
  /\ shimLog = <<>>

Next ==
  \/ \E opts \in Options : Initialize(opts)
  \/ Destroy
  \/ \E a \in StartArgs : Start(a[1], a[2])
  \/ Stop
  \/ StatusRaw
  \/ IsRunning
  \/ Signo
  \/ ClockId
  \/ \E t \in 1..Len(ktimers), left \in RemainVals : Elapse(t, left)
  \/ \E t \in 1..Len(ktimers) : Expire(t)
  \/ \E p \in inflight : mrb_timer_posix_thread_func(p)

Spec == Init /\ [][Next]_vars

-----------------------------------------------------------------------------
\* The signal directory on its own: an index is drawn, then the two ways of
\* naming a real-time signal are applied to it.

Wide(lo, hi) == <<lo, 0, hi, 0>>

\* Indexes tried: -MaxRTIndex - 2 .. MaxRTIndex, and 2^32, 2^32 + 1 and
\* 2^32 + 31, which only an mrb_int or a long can hold.  No index makes
\* SIGRTMIN + (int)idx overflow.
RTIndexes ==
  {MrbInt(i) : i \in (-MaxRTIndex - 2)..MaxRTIndex} \cup {Wide(0, 1), Wide(1, 1), Wide(31, 1)}

NotRun == Raise("not run")

InitSig ==
  /\ dataType = FALSE
  /\ dataPtr = NULL
  /\ recs = <<>>
  /\ slots = <<>>
  /\ params = <<>>
  /\ ktimers = <<>>
  /\ inflight = {}
  /\ lastSignal = NoSignal
  /\ stopped = FALSE
  /\ expiredAfterStop = FALSE
  /\ crashed = "no"
  /\ held = FALSE
  /\ builtWith = NoOptions
  /\ result = NoResult
  /\ sigArg \in RTIndexes
  /\ sigRes = [resolve |-> NotRun, get |-> NotRun]
  /\ shimLog = <<>>

\* The signal spec "RT<i>" is resolved, as initialize does for its signal key.
ResolveRT ==
  /\ sigRes.resolve = NotRun
  /\ sigRes' = [sigRes EXCEPT
                  !.resolve = mrb_to_signo(StrSig(<<"R", "T">> \o IntToS(sigArg)))]
  /\ UNCHANGED <<sigArg, shimLog>>
  /\ UNCHANGED handleVars

\* RTSignal.get(i).
RTSignalGet ==
  /\ sigRes.get = NotRun
  /\ sigRes' = [sigRes EXCEPT !.get = mrb_rtsignal_get(sigArg)]
  /\ UNCHANGED <<sigArg, shimLog>>
  /\ UNCHANGED handleVars

NextSig == ResolveRT \/ RTSignalGet

SpecSig == InitSig /\ [][NextSig]_vars

-----------------------------------------------------------------------------
\* The build for a platform without interval timers (__APPLE__).  gem_init
\* defines the class Timer::POSIX with the one method start; every other
\* call goes to what the class inherits from Object.

ShimMethods == {"new", "start", "stop", "__status_raw", "running?", "signo", "clock_id"}

\* mrb_timer_posix_dummy_start.
mrb_timer_posix_dummy_start == Raise("NotImplementedError")

\* The method table of mrb_mruby_timer_thread_gem_init in this build.
ShimDefined == {"start"}

\* A call of method m on the class (new) or on an object of it.
ShimDispatch(m) ==
  IF m \in ShimDefined THEN mrb_timer_posix_dummy_start
  ELSE IF m = "new" THEN Ok(0)
  ELSE Raise("NoMethodError")

ShimCall(m) ==
  /\ Len(shimLog) < MaxShimCalls
  /\ shimLog' = Append(shimLog, [method |-> m, res |-> ShimDispatch(m)])
  /\ UNCHANGED <<sigArg, sigRes>>
  /\ UNCHANGED handleVars

NextShim == \E m \in ShimMethods : ShimCall(m)

SpecShim == Init /\ [][NextShim]_vars

-----------------------------------------------------------------------------
\* start on its own: a handle is built by Timer::POSIX.new with no options,
\* then start is called once with arguments from a range of milliseconds.

ArmStarts == 0..MaxStartMs

ArmIntervals == {<<>>} \cup {<<i>> : i \in {0, 1, 250, 999, 1000, MaxIntervalMs}}

\* What Timer::POSIX.new with no options makes of a fresh object.
Built ==
  mrb_timer_posix_init([recs |-> <<>>, slots |-> <<>>, params |-> <<>>, ktimers |-> <<>>],
                       NULL, FALSE, NoOptions)

InitArm ==
  /\ dataType = Built.dataType
  /\ dataPtr = Built.dataPtr
  /\ recs = Built.heap.recs
  /\ slots = Built.heap.slots
  /\ params = Built.heap.params
  /\ ktimers = Built.heap.ktimers
  /\ inflight = {}
  /\ lastSignal = NoSignal
  /\ stopped = FALSE
  /\ expiredAfterStop = FALSE
  /\ crashed = "no"
  /\ held = TRUE
  /\ builtWith = NoOptions
  /\ result = Outcome("initialize", <<>>, Built.res, NoValue, FALSE)
  /\ sigArg = MrbInt(0)
  /\ sigRes = <<>>
  /\ shimLog = <<>>

\* The one call of start on the new handle.
NextArm ==
  /\ result.op = "initialize"
  /\ \E start \in ArmStarts, interval \in ArmIntervals : Start(start, interval)

SpecArm == InitArm /\ [][NextArm]_vars

-----------------------------------------------------------------------------
\* What is allocated, and what the handle owns.

LiveRecs == {d \in 1..Len(recs) : recs[d].live}

LiveSlots == {x \in 1..Len(slots) : slots[x].live}

LiveParams == {p \in 1..Len(params) : params[p].live}

LiveTimers == {t \in 1..Len(ktimers) : ktimers[t].live}

OwnedRecs == IF dataPtr # NULL THEN {dataPtr} ELSE {}

OwnedSlots == IF dataPtr # NULL THEN {recs[dataPtr].timer_ptr} ELSE {}

OwnedParams == IF dataPtr # NULL THEN {recs[dataPtr].thread_param_ptr} \ {NULL} ELSE {}

OwnedTimers == IF dataPtr # NULL THEN {TimerOf(dataPtr)} ELSE {}

\* The handle owns a live kernel timer and its fields agree with it.
HandleConsistent ==
  /\ dataPtr # NULL
  /\ recs[dataPtr].live
  /\ slots[recs[dataPtr].timer_ptr].live
  /\ TimerOf(dataPtr) \in LiveTimers
  /\ recs[dataPtr].clockid = ktimers[TimerOf(dataPtr)].clockid
  /\ recs[dataPtr].timer_signo = ktimers[TimerOf(dataPtr)].signo
  /\ OwnedParams \subseteq LiveParams

-----------------------------------------------------------------------------
\* The claims.

\* C1: while the caller holds the handle, however often initialize was called
\* on it, exactly one kernel timer and at most one notification context are
\* live.
C1_OneTimerOneContext ==
  held => (Cardinality(LiveTimers) = 1 /\ Cardinality(LiveParams) <= 1)

\* C2: after initialize, either it returned a handle that owns a live kernel
\* timer with consistent signal number, clock id and context, or it raised
\* and no record, timer slot, context or kernel timer is left allocated that
\* the handle does not own.
C2_NoPartialSuccess ==
  result.op = "initialize" =>
    IF result.ok THEN HandleConsistent
    ELSE /\ LiveRecs \subseteq OwnedRecs
         /\ LiveSlots \subseteq OwnedSlots
         /\ LiveParams \subseteq OwnedParams
         /\ LiveTimers \subseteq OwnedTimers

\* C3: start with a negative start_ms raises ArgumentError and timer_settime
\* is not called.
C3_NegativeStartRejected ==
  (result.op = "start" /\ result.args[1] < 0) =>
    (~result.ok /\ result.err = "ArgumentError" /\ ~result.settime)

\* C4: start with a non-negative start_ms and an explicit negative
\* interval_ms raises ArgumentError and timer_settime is not called.
C4_NegativeIntervalRejected ==
  (result.op = "start" /\ Len(result.args) = 2 /\ result.args[1] >= 0
     /\ result.args[2] < 0) =>
    (~result.ok /\ result.err = "ArgumentError" /\ ~result.settime)

\* C5: a handle built with a thread_id has a kernel timer created with
\* SIGEV_THREAD whose sigev_value is the handle's notification context, the
\* context names that thread and the given signal (SIGALRM if none was
\* given), and no expiry of that timer sends a signal to the process.
C5_ThreadModeSelected ==
  (dataPtr # NULL /\ builtWith.thread_id # <<>>) =>
    /\ ktimers[TimerOf(dataPtr)].notify = "SIGEV_THREAD"
    /\ recs[dataPtr].thread_param_ptr # NULL
    /\ ktimers[TimerOf(dataPtr)].sival = recs[dataPtr].thread_param_ptr
    /\ params[recs[dataPtr].thread_param_ptr].thread_id = builtWith.thread_id[1]
    /\ (builtWith.signal.t = "absent" =>
          params[recs[dataPtr].thread_param_ptr].signo = SIGALRM)
    /\ ~(lastSignal.timer = TimerOf(dataPtr) /\ lastSignal.to = PROCESS)

\* C6: in the build without interval timers every call (new, start, stop,
\* __status_raw, ...) raises NotImplementedError.
C6_ShimAlwaysNotImplemented ==
  \A k \in 1..Len(shimLog) :
    ~shimLog[k].res.ok /\ shimLog[k].res.err = "NotImplementedError"

\* C7: no kernel timer is deleted twice and no notification context is freed
\* twice or while a live kernel timer refers to it; and every kernel timer and
\* context still allocated is owned by the handle, so that its release is
\* still to come.
C7_ReleasedExactlyOnce ==
  /\ \A t \in 1..Len(ktimers) : ktimers[t].deletes <= 1
  /\ \A p \in 1..Len(params) : params[p].frees <= 1 /\ ~params[p].early
  /\ LiveTimers \subseteq OwnedTimers
  /\ LiveParams \subseteq OwnedParams

\* C8: from a successful stop until the next start, the handle and its kernel
\* timer exist, running? is false, __status_raw is all zero and the timer
\* produces no expiry; start(0) and start(0, 0) leave the same timer state.
C8_DisarmIsArmZero ==
  /\ stopped =>
       /\ HandleConsistent
       /\ mrb_timer_posix_is_running(ktimers, TimerOf(dataPtr)).ok
       /\ ~mrb_timer_posix_is_running(ktimers, TimerOf(dataPtr)).v
       /\ mrb_timer_posix_status_raw(ktimers, TimerOf(dataPtr)).ok
       /\ mrb_timer_posix_status_raw(ktimers, TimerOf(dataPtr)).v = ZeroSpec
       /\ ~expiredAfterStop
       /\ (result.op = "running?" => result.ok /\ ~result.running)
       /\ (result.op = "__status_raw" => result.ok /\ result.ts = ZeroSpec)
  /\ (result.op = "start" /\ result.ok /\ result.args \in {<<0>>, <<0, 0>>}) =>
       ktimers[TimerOf(dataPtr)].ts = ZeroSpec

\* C8's case: a timer that has expired is stopped, and running? is asked.
C8_Witness ==
  /\ stopped
  /\ result.op = "running?"
  /\ ~result.running
  /\ lastSignal.timer = TimerOf(dataPtr)

\* The signal number a signal spec of the model stands for.
ExpectedSigno(signal) ==
  CASE signal.t = "absent" -> SIGALRM
    [] signal.t = "fixnum" -> signal.n
    [] signal = StrSig(Str_SIGUSR1) -> SIGUSR1
    [] OTHER -> -1

\* C9: signo returns nil exactly when the handle was built with signal: nil,
\* and otherwise the number of the signal given, or SIGALRM if none was given.
C9_SignoNilIffNoNotification ==
  result.op = "signo" =>
    /\ result.ok
    /\ result.nil <=> (builtWith.signal.t = "nil")
    /\ ~result.nil => result.v = ExpectedSigno(builtWith.signal)

\* C9's case: signo is asked of a handle built with signal: nil.
C9_Witness ==
  /\ result.op = "signo"
  /\ result.nil
  /\ builtWith.signal.t = "nil"
  /\ HandleConsistent

\* The index i of the claim: SIGRTMIN + i <= SIGRTMAX, for an mrb_int >= 0.
RTInRange(w) == w[2] = 0 /\ w[3] = 0 /\ w[4] = 0 /\ SIGRTMIN + w[1] <= SIGRTMAX

\* C10: for an index i >= 0 with SIGRTMIN + i <= SIGRTMAX, "RT<i>" resolves
\* to what RTSignal.get(i) returns, SIGRTMIN + i (SIGRTMIN for "RT0"); for
\* a larger i both raise ArgumentError.
C10_RTNameMatchesIndex ==
  (sigRes # <<>> /\ sigRes.resolve # NotRun /\ sigRes.get # NotRun
     /\ ~MrbNegative(sigArg)) =>
    IF RTInRange(sigArg)
    THEN /\ sigRes.resolve.ok /\ sigRes.get.ok
         /\ sigRes.resolve.v = sigRes.get.v
         /\ sigRes.get.v = SIGRTMIN + sigArg[1]
    ELSE /\ ~sigRes.resolve.ok /\ sigRes.resolve.err = "ArgumentError"
         /\ ~sigRes.get.ok /\ sigRes.get.err = "ArgumentError"

\* C11: for start_ms >= 0 and interval_ms >= 0 or absent, start succeeds and
\* hands timer_settime it_value = (start_ms div 1000 s, (start_ms mod 1000) *
\* 1000000 ns) and it_interval likewise from interval_ms, (0, 0) when it is
\* absent; every nanosecond field is in 0 .. 999999999; start(1500, 250)
\* gives (1 s, 500000000 ns) and (0 s, 250000000 ns).
C11_ArmBuildsSpec ==
  (result.op = "start" /\ result.args[1] >= 0
     /\ (Len(result.args) = 2 => result.args[2] >= 0)) =>
    /\ result.ok
    /\ result.settime
    /\ result.ts.vs = result.args[1] \div 1000
    /\ result.ts.vn = (result.args[1] % 1000) * 1000000
    /\ result.ts.is = IF Len(result.args) = 2 THEN result.args[2] \div 1000 ELSE 0
    /\ result.ts.in = IF Len(result.args) = 2 THEN (result.args[2] % 1000) * 1000000 ELSE 0
    /\ result.ts.vn \in 0..999999999
    /\ result.ts.in \in 0..999999999
    /\ (result.args = <<1500, 250>> =>
         result.ts = [vs |-> 1, vn |-> 500000000, is |-> 0, in |-> 250000000])

\* C11's case: start(1500, 250) was called and reached timer_settime.
C11_Witness ==
  /\ result.op = "start"
  /\ result.args = <<1500, 250>>
  /\ result.settime
  /\ result.ts.vn = 500000000
  /\ ktimers[TimerOf(dataPtr)].ts.in = 250000000

\* The time to the next expiry of kernel timer t is not zero, in the timers kt.
ArmedIn(kt, t) == kt[t].ts.vs # 0 \/ kt[t].ts.vn # 0

\* C12: running? returns true exactly when the time to the next expiry of the
\* handle's kernel timer is not zero.  A kernel timer that is running stops
\* running only by the expiry of a timer armed without an interval, or by a
\* call of stop or start; it starts running only by a successful start; the
\* expiry of a timer with no interval leaves it not running (so that it has
\* no second expiry until the next start), the expiry of a timer with an
\* interval leaves it running.
C12_RunningUntilExpiry ==
  [][/\ (IsRunning /\ dataPtr # NULL) =>
          /\ result'.ok
          /\ result'.running = ArmedIn(ktimers, TimerOf(dataPtr))
     /\ \A t \in 1..Len(ktimers) :
          (ktimers[t].live /\ ktimers'[t].live) =>
            /\ (ArmedIn(ktimers, t) /\ ~ArmedIn(ktimers', t)) =>
                 \/ Expire(t) /\ ktimers[t].ts.is = 0 /\ ktimers[t].ts.in = 0
                 \/ /\ dataPtr # NULL /\ TimerOf(dataPtr) = t
                    /\ result'.op \in {"start", "stop"} /\ result'.ok
            /\ (~ArmedIn(ktimers, t) /\ ArmedIn(ktimers', t)) =>
                 /\ dataPtr # NULL /\ TimerOf(dataPtr) = t
                 /\ result'.op = "start" /\ result'.ok
            /\ Expire(t) =>
                 (ArmedIn(ktimers', t) <=> (ktimers[t].ts.is # 0 \/ ktimers[t].ts.in # 0))
    ]_vars

\* C12's case: a handle built with signal: nil answered running? with true,
\* no call was made since, and its timer has expired and is not running.
C12_Witness ==
  /\ result.op = "running?"
  /\ result.running
  /\ builtWith.signal.t = "nil"
  /\ dataPtr # NULL
  /\ ktimers[TimerOf(dataPtr)].live
  /\ ~ArmedIn(ktimers, TimerOf(dataPtr))

\* C13: for a handle built with signal: nil, with or without a thread_id, no
\* expiry of its kernel timer and no run of the dispatcher for its context
\* sends a signal, to the process or to a thread; and __status_raw and
\* running? succeed on it.
C13_NoneDeliversNothing ==
  [][/\ (dataPtr # NULL /\ builtWith.signal.t = "nil") =>
          /\ Expire(TimerOf(dataPtr)) => lastSignal' = lastSignal
          /\ (StatusRaw \/ IsRunning) => result'.ok
     /\ \A p \in inflight :
          (params[p].none /\ mrb_timer_posix_thread_func(p)) => lastSignal' = lastSignal
    ]_vars

\* The part of a kernel timer that timer_create fixes.
TimerConfig(kt, t) ==
  [live |-> kt[t].live, clockid |-> kt[t].clockid, notify |-> kt[t].notify,
   signo |-> kt[t].signo, sival |-> kt[t].sival]

\* C14: no step that changes the handle's record (signal number, clock id,
\* context pointer), a notification context or the notification mode,
\* signal, clock or context of a kernel timer is a call of start, stop,
\* __status_raw, running?, signo or clock_id, whether it returns or raises;
\* signo and clock_id return what the last successful initialize was given.
C14_ConfigFixedAtConstruct ==
  [][/\ (/\ dataPtr # NULL
         /\ result'.op \in {"start", "stop", "__status_raw", "running?", "signo", "clock_id"}
         /\ ~(/\ dataPtr' = dataPtr
              /\ recs' = recs
              /\ slots' = slots
              /\ params' = params
              /\ Len(ktimers') = Len(ktimers)
              /\ \A t \in 1..Len(ktimers) :
                   TimerConfig(ktimers', t) = TimerConfig(ktimers, t))) =>
          ~(\/ \E a \in StartArgs : Start(a[1], a[2])
            \/ Stop \/ StatusRaw \/ IsRunning \/ Signo \/ ClockId)
     /\ (dataPtr # NULL /\ result'.op = "signo" /\ Signo) =>
          /\ result'.ok
          /\ result'.nil <=> (builtWith.signal.t = "nil")
          /\ ~result'.nil => result'.v = ExpectedSigno(builtWith.signal)
     /\ (dataPtr # NULL /\ result'.op = "clock_id" /\ ClockId) =>
          /\ result'.ok
          /\ result'.v = IF builtWith.clock_id = <<>> THEN CLOCK_REALTIME
                         ELSE builtWith.clock_id[1]
    ]_vars

\* C14's case: clock_id is asked of a handle built with CLOCK_MONOTONIC after
\* its timer was started, has expired and was stopped.
C14_Witness ==
  /\ result.op = "clock_id"
  /\ result.v = CLOCK_MONOTONIC
  /\ builtWith.clock_id = <<CLOCK_MONOTONIC>>
  /\ stopped
  /\ lastSignal.timer = TimerOf(dataPtr)

\* C15: no step changes a field of a notification context that stays
\* allocated, so the fields hold what initialize wrote before timer_create;
\* start and stop leave every context and every dispatch in flight as they
\* were; and a dispatcher that runs on an allocated context is that of the
\* handle's own context and sends the signal given to initialize to the
\* thread given to initialize (nothing, for signal: nil).
C15_DispatchReadsFixedContext ==
  [][/\ \A p \in 1..Len(params) :
          (params[p].live /\ params'[p].live) => params'[p] = params[p]
     /\ (/\ dataPtr # NULL
         /\ result'.op \in {"start", "stop"}
         /\ ((\E a \in StartArgs : Start(a[1], a[2])) \/ Stop)) =>
          (params' = params /\ inflight' = inflight)
     /\ \A p \in inflight :
          (params[p].live /\ mrb_timer_posix_thread_func(p)) =>
            /\ dataPtr # NULL
            /\ recs[dataPtr].thread_param_ptr = p
            /\ crashed' = "no"
            /\ lastSignal' = IF builtWith.signal.t = "nil" THEN lastSignal
                             ELSE [to |-> builtWith.thread_id[1],
                                   signo |-> ExpectedSigno(builtWith.signal),
                                   timer |-> 0]
    ]_vars

\* C15's case: the dispatcher has sent the handle's signal to its thread, a
\* later dispatch is in flight, and start(0) was called meanwhile.
C15_Witness ==
  /\ result.op = "start"
  /\ result.args = <<0>>
  /\ result.ok
  /\ dataPtr # NULL
  /\ inflight = {recs[dataPtr].thread_param_ptr}
  /\ params[recs[dataPtr].thread_param_ptr].live
  /\ lastSignal.to = builtWith.thread_id[1]
  /\ lastSignal.signo = ExpectedSigno(builtWith.signal)
  /\ lastSignal.signo > 0

\* C16: whenever the caller holds the handle, so that a method can be called
\* on it, the handle owns a live kernel timer with consistent fields, also
\* after an initialize that raised; and no call dereferences a NULL handle
\* record.
C16_HandleAlwaysUsable ==
  /\ held => HandleConsistent
  /\ crashed # "null"

\* C17: every number that resolving "RT<n>" or RTSignal.get(n) returns, for
\* n negative, zero or positive, is in SIGRTMIN .. SIGRTMAX, and when they
\* return no number they raise ArgumentError.
C17_RTResultsInRange ==
  (sigRes # <<>>) =>
    \A r \in {sigRes.resolve, sigRes.get} \ {NotRun} :
      IF r.ok THEN SIGRTMIN <= r.v /\ r.v <= SIGRTMAX
      ELSE r.err = "ArgumentError"

\* C18: the dispatcher never reads a notification context that was freed: no
\* context is freed while a dispatch that will read it is in flight.
C18_NoDispatchOnFreedContext ==
  /\ crashed # "freed"
  /\ \A p \in inflight : params[p].live

\* Signal specs that mrb_to_signo resolves to 0.
ZeroSignals == {FixSig(0), StrSig(Str_EXIT), StrSig(Str_SIGEXIT)}

\* C19: a handle's signal number is 0 only if it was built with signal: nil;
\* initialize with a signal spec that resolves to 0 ("EXIT", "SIGEXIT" or 0)
\* raises ArgumentError and leaves the handle, its record, every context and
\* every kernel timer as they were, so that no timer is created and the
\* previous one is not released.
C19_ZeroSignalRejected ==
  [][/\ (dataPtr' # NULL /\ recs'[dataPtr'].timer_signo = 0) =>
          builtWith'.signal.t = "nil"
     /\ \A z \in ZeroSignals : mrb_to_signo(z) = Ok(0)
     /\ (result'.op = "initialize" /\ result'.args = <<0>>) =>
          \A o \in {x \in Options : x.signal \in ZeroSignals} :
            Initialize(o) =>
              /\ ~result'.ok
              /\ result'.err = "ArgumentError"
              /\ UNCHANGED <<dataType, dataPtr, recs, slots, params, ktimers, builtWith>>
    ]_vars

\* C19's case: initialize with a spec that resolves to 0 was called on a
\* handle whose timer is armed, and the timer is still there and armed.
C19_Witness ==
  /\ result.op = "initialize"
  /\ result.args = <<0>>
  /\ ~result.ok
  /\ held
  /\ HandleConsistent
  /\ ArmedIn(ktimers, TimerOf(dataPtr))

====
